---- MODULE Spec2Model ----
(***************************************************************************)
(* Model of helpers/dbmanager.js: the data-access layer between the bot    *)
(* and its Mongo collections (users, categories, jobs, reviews).           *)
(*                                                                         *)
(* Every exported operation issues store requests and continues in the     *)
(* callback of each request.  One action of the model is one such callback *)
(* (the store's answer together with the handler code that runs on it);    *)
(* one more action per operation is the call itself, which issues the      *)
(* first request.  A save writes the whole loaded document back.           *)
(***************************************************************************)
EXTENDS Integers, Sequences, FiniteSets, TLC

\* ------------------------------------------------------------------ bounds

\* Invocations made in one behaviour of Spec (overlapping allowed).
MaxCalls == 2
\* Invocations made in one behaviour of SeqSpec (one at a time).
MaxSeqCalls == 3
\* Longest categories / freelancers list of the seeded store.
MaxSeedLen == 2
\* Review documents the store holds at most.
MaxReviews == 1
\* Invocations made in one behaviour of DupSpec, and the longest list of its
\* seeded store.
MaxDupCalls == 1
MaxDupSeedLen == 3
\* Invocations made in one behaviour of CategoryQuerySpec and of JobQuerySpec,
\* and the longest freelancers list of the store of CategoryQuerySpec.
MaxQueryCalls == 1
MaxQueryLen == 2

\* ----------------------------------------------------------------- domains

Procs == {"p1", "p2"}
SeqProcs == {"p1"}
\* Chat ids (User.id, the natural key).  The seeded user has chat id 1.
ChatIds == {1, 2}
\* What addUser is called with.
Candidates == {[id |-> i, name |-> "b"] : i \in ChatIds}
\* Store ids findUserById is called with: the seeded user's, and the next one.
UserIds == {1, 2}
\* Category documents of the store, and an id that resolves to none.
Cats == {"c1", "c2"}
CategoryIds == Cats \cup {"cx"}
\* Names and titles, in the order the store sorts them.
Collation == <<"a", "b", "c">>
\* Titles getCategory is called with; no category is titled "c".
Titles == {"a", "b", "c"}
\* Job ids freelancersForJobId is called with; the store holds job 1 at most.
JobIds == {1, 2}
\* The users of the stores the queries are checked on.
QueryUsers == {1, 2}

VARIABLES
  users,    \* the users collection: users[i] is the document with _id i
            \* (bio, hourly_rate: whether the document has the field)
  cats,     \* the categories collection: cats[c] is the freelancers list of c
  reviews,  \* number of documents of the reviews collection
  jobs,     \* the jobs collection: jobs[j] is the document with _id j
  titles,   \* titles[c] is the title of category c
  inv,      \* per invocation slot: operation, arguments, pending request,
            \* the documents loaded in memory, what the callback received,
            \* the store requests issued and answered so far (log), how
            \* many times the caller's callback was called (ncb)
  ncalls,   \* invocations made so far
  seed,     \* what the seeded store was like (never changes), see Init
  failed,   \* some write of a toggleCategoryForUser has failed
  everOvl,  \* some invocation started while another was in flight
  ovl,      \* per slot: the current invocation overlapped another one
  nok,      \* toggleCategoryForUser calls ended with both writes done
  run       \* consecutive successful calls of one operation, see RunOnCall

vars == <<users, cats, reviews, jobs, titles, inv, ncalls, seed, failed, everOvl, ovl, nok, run>>

\* ----------------------------------------------------------------- values

NullUser ==
  [_id |-> 0, id |-> 0, name |-> "", busy |-> FALSE, bio |-> FALSE,
   hourly_rate |-> FALSE, categories |-> <<>>]
NullCategory == [_id |-> "null", freelancers |-> <<>>]
NoCand == [id |-> 0, name |-> ""]
NoCb == [kind |-> "none", err |-> "null", doc |-> NullUser, added |-> FALSE]
NoStore == [users |-> <<>>, cats |-> <<>>]
NullJob == [_id |-> 0, category |-> "none", notInterestedCandidates |-> {}]
\* What a query handed to the callback: nothing (null), or a list.
NoRes == [absent |-> TRUE, list |-> <<>>]

Idle ==
  [op |-> "none", pc |-> "idle", chatId |-> 0, categoryId |-> "none",
   cand |-> NoCand, uid |-> 0, user |-> NullUser, category |-> NullCategory,
   index |-> -1, uw |-> "none", cw |-> "none", cb |-> NoCb, pre |-> NoStore,
   log |-> <<>>, ncb |-> 0, title |-> "", jobId |-> 0, job |-> NullJob,
   res |-> NoRes]

RECURSIVE SeqsUpTo(_, _)
SeqsUpTo(S, n) ==
  IF n = 0 THEN {<<>>}
  ELSE LET shorter == SeqsUpTo(S, n - 1)
       IN  shorter \cup {Append(s, x) : s \in {t \in shorter : Len(t) = n - 1}, x \in S}

InSeq(x, s) == \E i \in 1..Len(s) : s[i] = x
Count(x, s) == Cardinality({i \in 1..Len(s) : s[i] = x})
NoRepeat(s) == \A i, j \in 1..Len(s) : s[i] = s[j] => i = j

\* ---------------------------------------------------------- store requests

\* User.findOne({id: chatId}): the first document with that chat id, loaded
\* into memory with its store id, or null.
Loaded(us, i) ==
  [_id |-> i, id |-> us[i].id, name |-> us[i].name, busy |-> us[i].busy,
   bio |-> us[i].bio, hourly_rate |-> us[i].hourly_rate,
   categories |-> us[i].categories]

FindOne(us, chatId) ==
  LET hits == {i \in 1..Len(us) : us[i].id = chatId}
  IN  IF hits = {} THEN NullUser
      ELSE Loaded(us, CHOOSE i \in hits : \A j \in hits : i <= j)

\* User.findById(id)
FindById(us, i) == IF i \in 1..Len(us) THEN Loaded(us, i) ELSE NullUser

\* Category.findById(categoryId), freelancers not populated
FindCategoryById(cs, c) ==
  IF c \in Cats THEN [_id |-> c, freelancers |-> cs[c]] ELSE NullCategory

Stored(doc) ==
  [id |-> doc.id, name |-> doc.name, busy |-> doc.busy, bio |-> doc.bio,
   hourly_rate |-> doc.hourly_rate, categories |-> doc.categories]

\* user.save() of a loaded document: the document replaces the stored one.
SaveUser(us, doc) == [us EXCEPT ![doc._id] = Stored(doc)]

\* category.save() of a loaded document.
SaveCategory(cs, category) == [cs EXCEPT ![category._id] = category.freelancers]

\* new User(candidate).save(): a new document, with a new store id; the
\* candidate carries an id and a name, no bio and no hourly_rate.
InsertUser(us, cand) ==
  Append(us, [id |-> cand.id, name |-> cand.name, busy |-> FALSE, bio |-> FALSE,
              hourly_rate |-> FALSE, categories |-> <<>>])

\* --------------------------------------------------- findCategoryCallback

\* A plausible slip: splice(i, 0), which removes nothing.
SpliceNothing(s, i) == s

\* A plausible slip: splice(i), which removes everything from i on.
SpliceToEnd(s, i) == SubSeq(s, 1, i)

\* Array.prototype.splice(i, 1), i a 0-based index
Splice(s, i) == [k \in 1..(Len(s) - 1) |-> IF k <= i THEN s[k] ELSE s[k + 1]]

\* A plausible slip: the entries compared with the category document, not by
\* _id: nothing is found.
IndexOfCategoryByDocument(categories, cid) == -1

\* A plausible slip: the scan without its break ends on the last match.
IndexOfCategoryNoBreak(categories, cid) ==
  LET hits == {i \in 1..Len(categories) : categories[i] = cid}
  IN  IF hits = {} THEN -1 ELSE (CHOOSE i \in hits : \A j \in hits : i >= j) - 1

\* The scan of user.categories: the 0-based index of the first entry whose
\* _id equals the category's, or -1.
IndexOfCategory(categories, cid) ==
  LET hits == {i \in 1..Len(categories) : categories[i] = cid}
  IN  IF hits = {} THEN -1 ELSE (CHOOSE i \in hits : \A j \in hits : i <= j) - 1

\* A plausible slip: category.freelancers.indexOf(user), a document looked
\* up among ids, finds nothing.
IndexOfFreelancerByDocument(freelancers, uid) == -1

\* The scan of category.freelancers for the user's _id.
IndexOfFreelancer(freelancers, uid) ==
  LET hits == {i \in 1..Len(freelancers) : freelancers[i] = uid}
  IN  IF hits = {} THEN -1 ELSE (CHOOSE i \in hits : \A j \in hits : i <= j) - 1

\* A plausible slip: splice(ind, 1) without the ind > -1 guard; splice(-1, 1)
\* removes the last entry.
findCategoryCallbackUnguarded(category, user) ==
  LET index == IndexOfCategory(user.categories, category._id)
  IN  IF index < 0
      THEN [index |-> index,
            user |-> [user EXCEPT !.categories = Append(@, category._id)],
            category |-> [category EXCEPT !.freelancers = Append(@, user._id)]]
      ELSE LET ind == IndexOfFreelancer(category.freelancers, user._id)
               last == Len(category.freelancers) - 1
           IN  [index |-> index,
                user |-> [user EXCEPT !.categories = Splice(@, index)],
                category |-> IF ind > -1
                             THEN [category EXCEPT !.freelancers = Splice(@, ind)]
                             ELSE IF last >= 0
                             THEN [category EXCEPT !.freelancers = Splice(@, last)]
                             ELSE category]

\* A plausible slip: the category is added without the inverse link.
findCategoryCallbackNoInverse(category, user) ==
  LET index == IndexOfCategory(user.categories, category._id)
  IN  IF index < 0
      THEN [index |-> index,
            user |-> [user EXCEPT !.categories = Append(@, category._id)],
            category |-> category]
      ELSE LET ind == IndexOfFreelancer(category.freelancers, user._id)
           IN  [index |-> index,
                user |-> [user EXCEPT !.categories = Splice(@, index)],
                category |-> IF ind > -1
                             THEN [category EXCEPT !.freelancers = Splice(@, ind)]
                             ELSE category]

\* The in-memory part of findCategoryCallback, up to the call of user.save.
findCategoryCallback(category, user) ==
  LET index == IndexOfCategory(user.categories, category._id)
  IN  IF index < 0
      THEN [index |-> index,
            user |-> [user EXCEPT !.categories = Append(@, category._id)],
            category |-> [category EXCEPT !.freelancers = Append(@, user._id)]]
      ELSE LET ind == IndexOfFreelancer(category.freelancers, user._id)
           IN  [index |-> index,
                user |-> [user EXCEPT !.categories = Splice(@, index)],
                category |-> IF ind > -1
                             THEN [category EXCEPT !.freelancers = Splice(@, ind)]
                             ELSE category]

\* -------------------------------------------------------------- seeded store

\* The store before the first call: one user (chat id 1) and the categories,
\* their lists in any content up to MaxSeedLen (consistent or not).
SeedUsers ==
  {<<[id |-> 1, name |-> "a", busy |-> b, bio |-> TRUE, hourly_rate |-> TRUE,
      categories |-> cl]>> :
     b \in {FALSE}, cl \in SeqsUpTo(Cats, MaxSeedLen)}

SeedCats == [Cats -> SeqsUpTo({1}, MaxSeedLen)]

\* The categories' titles; the title order is not the order of the ids.
SeedTitles == [c \in Cats |-> IF c = "c1" THEN "b" ELSE "a"]

\* C is in U.categories if and only if U is in C.freelancers, for every user
\* document and every category document of the store.
Symmetric(us, cs) ==
  \A i \in 1..Len(us), c \in Cats : InSeq(c, us[i].categories) <=> InSeq(i, cs[c])

\* No categories list and no freelancers list holds an entry twice.
NoRepeats(us, cs) ==
  /\ \A i \in 1..Len(us) : NoRepeat(us[i].categories)
  /\ \A c \in Cats : NoRepeat(cs[c])

NoRun ==
  [on |-> FALSE, op |-> "none", chatId |-> 0, categoryId |-> "none",
   flags |-> <<>>, base |-> NoStore]

Init ==
  /\ users \in SeedUsers
  /\ cats \in SeedCats
  /\ reviews = 0
  /\ jobs = <<>>
  /\ titles = SeedTitles
  /\ inv = [p \in Procs |-> Idle]
  /\ ncalls = 0
  /\ seed = [sym |-> Symmetric(users, cats), norep |-> NoRepeats(users, cats)]
  /\ failed = FALSE
  /\ everOvl = FALSE
  /\ ovl = [p \in Procs |-> FALSE]
  /\ nok = 0
  /\ run = NoRun

\* ------------------------------------------------------- history variables

InFlight(p) == inv[p].pc # "idle"
Quiescent == \A p \in Procs : ~InFlight(p)
OthersInFlight(p) == \E q \in Procs \ {p} : InFlight(q)

\* run follows consecutive calls of toggleCategoryForUser or of
\* toggleUserAvailability with the same arguments, none overlapping another
\* invocation and each ending with its writes done and its callback called
\* without error: base is the store before the first of them, flags the
\* added flag each reported.  Any other call ends the run.
RunOnCall(o, chatId, categoryId, overlap) ==
  IF o \notin {"toggleCategoryForUser", "toggleUserAvailability"} \/ overlap
  THEN NoRun
  ELSE IF run.on /\ run.op = o /\ run.chatId = chatId /\ run.categoryId = categoryId
  THEN run
  ELSE [on |-> TRUE, op |-> o, chatId |-> chatId, categoryId |-> categoryId,
        flags |-> <<>>, base |-> [users |-> users, cats |-> cats]]

RunOnSuccess(added) ==
  IF run.on THEN [run EXCEPT !.flags = Append(@, added)] ELSE NoRun

\* A call: the slot is free and the budget of calls is not used up.
Begin(p, limit, o, chatId, categoryId) ==
  /\ ~InFlight(p)
  /\ ncalls < limit
  /\ ncalls' = ncalls + 1
  /\ everOvl' = (everOvl \/ OthersInFlight(p))
  /\ ovl' = IF OthersInFlight(p)
            THEN [q \in Procs |-> IF q = p \/ InFlight(q) THEN TRUE ELSE ovl[q]]
            ELSE [ovl EXCEPT ![p] = FALSE]
  /\ run' = RunOnCall(o, chatId, categoryId, OthersInFlight(p))
  /\ UNCHANGED nok

\* A slot at a call: nothing loaded, the store of that moment remembered.
Fresh == [Idle EXCEPT !.pre = [users |-> users, cats |-> cats]]

\* The store request a slot at pc waits for.
Req(pc) ==
  CASE pc = "findUser" -> "User.findOne"
    [] pc = "findById" -> "User.findById"
    [] pc = "findCategory" -> "Category.findById"
    [] pc = "saveUser" -> "user.save"
    [] pc = "saveNew" -> "user.save"
    [] pc = "saveCategory" -> "category.save"
    [] pc = "saveReview" -> "review.save"
    [] pc = "findCategoryByTitle" -> "Category.findOne"
    [] pc = "findCategories" -> "Category.find"
    [] pc = "findJob" -> "Job.findById"
    [] pc = "findUsers" -> "User.find"
    [] OTHER -> "none"

\* The entries of a slot's log: a request is issued, the pending request of
\* slot p is answered (its callback starts to run).
Issue(pc) == <<"issue", Req(pc)>>
Answer(p) == <<"answer", Req(inv[p].pc)>>

\* The invocation of slot p ends.  kind: "called" (the caller's callback ran,
\* with err, doc and added), "dropped" (the handler returned without calling
\* it), "thrown" (an exception left a store callback uncaught), "rejected"
\* (the promise rejected and nothing handles it).  err: "null", "store" (the
\* store's error) or "TypeError".
Done(p, kind, err, doc, added) ==
  [inv[p] EXCEPT !.pc = "idle",
                 !.cb = [kind |-> kind, err |-> err, doc |-> doc, added |-> added],
                 !.ncb = IF kind = "called" THEN @ + 1 ELSE @,
                 !.log = Append(@, Answer(p))]

\* --------------------------------------------------------------- the calls

\* toggleCategoryForUser(chatId, categoryId, callback): findUser is issued.
ToggleCategoryForUser(p, limit, chatId, categoryId) ==
  /\ Begin(p, limit, "toggleCategoryForUser", chatId, categoryId)
  /\ inv' = [inv EXCEPT ![p] = [Fresh EXCEPT !.op = "toggleCategoryForUser",
                                            !.pc = "findUser",
                                            !.log = <<Issue("findUser")>>,
                                            !.chatId = chatId,
                                            !.categoryId = categoryId]]
  /\ UNCHANGED <<users, cats, reviews, seed, jobs, titles, failed>>

\* addUser(user, callback): findUser({id: user.id}) is issued.
AddUser(p, limit, cand) ==
  /\ Begin(p, limit, "addUser", cand.id, "none")
  /\ inv' = [inv EXCEPT ![p] = [Fresh EXCEPT !.op = "addUser", !.pc = "findUser",
                                            !.log = <<Issue("findUser")>>,
                                            !.chatId = cand.id, !.cand = cand]]
  /\ UNCHANGED <<users, cats, reviews, seed, jobs, titles, failed>>

\* toggleUserAvailability(chatId, callback): findUser is issued.
ToggleUserAvailability(p, limit, chatId) ==
  /\ Begin(p, limit, "toggleUserAvailability", chatId, "none")
  /\ inv' = [inv EXCEPT ![p] = [Fresh EXCEPT !.op = "toggleUserAvailability",
                                            !.pc = "findUser",
                                            !.log = <<Issue("findUser")>>,
                                            !.chatId = chatId]]
  /\ UNCHANGED <<users, cats, reviews, seed, jobs, titles, failed>>

\* findUserById(id, callback): User.findById is issued.
FindUserById(p, limit, id) ==
  /\ Begin(p, limit, "findUserById", 0, "none")
  /\ inv' = [inv EXCEPT ![p] = [Fresh EXCEPT !.op = "findUserById",
                                            !.pc = "findById",
                                            !.log = <<Issue("findById")>>,
                                            !.uid = id]]
  /\ UNCHANGED <<users, cats, reviews, seed, jobs, titles, failed>>

\* addReview(review, callback): the new review's save is issued.
AddReview(p, limit) ==
  /\ Begin(p, limit, "addReview", 0, "none")
  /\ reviews < MaxReviews
  /\ inv' = [inv EXCEPT ![p] = [Fresh EXCEPT !.op = "addReview", !.pc = "saveReview",
                                            !.log = <<Issue("saveReview")>>]]
  /\ UNCHANGED <<users, cats, reviews, seed, jobs, titles, failed>>

\* ------------------------------------------------------------- findUser

\* findUser's exec callback with an error: throw err, inside the store
\* driver's callback; the promise never settles, no callback is called.
FindUserError(p) ==
  /\ inv[p].pc = "findUser"
  /\ inv' = [inv EXCEPT ![p] = Done(p, "thrown", "store", NullUser, FALSE)]
  /\ run' = NoRun
  /\ UNCHANGED <<users, cats, reviews, ncalls, seed, jobs, titles, failed, everOvl, ovl, nok>>

\* ------------------------------------------------------------------ addUser

\* A plausible slip: the callback of an existing user gets the candidate.
AddUserThenEchoCandidate(p) ==
  /\ inv[p].pc = "findUser"
  /\ inv[p].op = "addUser"
  /\ LET dbuserObject == FindOne(users, inv[p].chatId)
         echo == [dbuserObject EXCEPT !.name = inv[p].cand.name]
     IN  IF dbuserObject._id # 0
         THEN inv' = [inv EXCEPT ![p] = Done(p, "called", "null", echo, FALSE)]
         ELSE inv' = [inv EXCEPT ![p].pc = "saveNew",
                                    ![p].log = @ \o <<Answer(p), Issue("saveNew")>>]
  /\ UNCHANGED <<users, cats, reviews, ncalls, seed, jobs, titles, failed, everOvl, ovl, nok, run>>

\* A plausible slip: the new document is saved without the lookup's result
\* being looked at.
AddUserThenAlwaysSave(p) ==
  /\ inv[p].pc = "findUser"
  /\ inv[p].op = "addUser"
  /\ inv' = [inv EXCEPT ![p].pc = "saveNew",
                                    ![p].log = @ \o <<Answer(p), Issue("saveNew")>>]
  /\ UNCHANGED <<users, cats, reviews, ncalls, seed, jobs, titles, failed, everOvl, ovl, nok, run>>

\* addUser's then-handler: an existing user goes to the callback as it is,
\* otherwise the save of a new document is issued.
AddUserThen(p) ==
  /\ inv[p].pc = "findUser"
  /\ inv[p].op = "addUser"
  /\ LET dbuserObject == FindOne(users, inv[p].chatId)
     IN  IF dbuserObject._id # 0
         THEN inv' = [inv EXCEPT ![p] = Done(p, "called", "null", dbuserObject, FALSE)]
         ELSE inv' = [inv EXCEPT ![p].pc = "saveNew",
                                    ![p].log = @ \o <<Answer(p), Issue("saveNew")>>]
  /\ UNCHANGED <<users, cats, reviews, ncalls, seed, jobs, titles, failed, everOvl, ovl, nok, run>>

\* userObject.save(callback): the callback gets the error or the new document.
NewUserSaved(p) ==
  /\ inv[p].pc = "saveNew"
  /\ \/ /\ users' = InsertUser(users, inv[p].cand)
        /\ inv' = [inv EXCEPT ![p] =
                     [Done(p, "called", "null",
                           Loaded(InsertUser(users, inv[p].cand), Len(users) + 1), FALSE)
                        EXCEPT !.uw = "ok"]]
     \/ /\ inv' = [inv EXCEPT ![p] =
                     [Done(p, "called", "store", NullUser, FALSE) EXCEPT !.uw = "err"]]
        /\ UNCHANGED users
  /\ UNCHANGED <<cats, reviews, ncalls, seed, jobs, titles, failed, everOvl, ovl, nok, run>>

\* --------------------------------------------------- toggleUserAvailability

\* toggleUserAvailability's then-handler: user.busy = !user.busy throws on
\* null (the promise rejects, nothing handles it); else user.save is issued.
ToggleAvailabilityThen(p) ==
  /\ inv[p].pc = "findUser"
  /\ inv[p].op = "toggleUserAvailability"
  /\ LET user == FindOne(users, inv[p].chatId)
     IN  IF user._id = 0
         THEN /\ inv' = [inv EXCEPT ![p] = Done(p, "rejected", "TypeError", NullUser, FALSE)]
              /\ run' = NoRun
         ELSE /\ inv' = [inv EXCEPT ![p].user = [user EXCEPT !.busy = ~user.busy],
                                    ![p].pc = "saveUser",
                                    ![p].log = @ \o <<Answer(p), Issue("saveUser")>>]
              /\ UNCHANGED run
  /\ UNCHANGED <<users, cats, reviews, ncalls, seed, jobs, titles, failed, everOvl, ovl, nok>>

\* user.save(callback) of toggleUserAvailability: callback(err, user).
AvailabilitySaved(p) ==
  /\ inv[p].pc = "saveUser"
  /\ inv[p].op = "toggleUserAvailability"
  /\ \/ /\ users' = SaveUser(users, inv[p].user)
        /\ inv' = [inv EXCEPT ![p] =
                     [Done(p, "called", "null", inv[p].user, FALSE) EXCEPT !.uw = "ok"]]
        /\ run' = RunOnSuccess(FALSE)
     \/ /\ inv' = [inv EXCEPT ![p] =
                     [Done(p, "called", "store", NullUser, FALSE) EXCEPT !.uw = "err"]]
        /\ run' = NoRun
        /\ UNCHANGED users
  /\ UNCHANGED <<cats, reviews, ncalls, seed, jobs, titles, failed, everOvl, ovl, nok>>

\* ------------------------------------------------- findUserById, addReview

\* findUserById's exec callback: an error is dropped, else callback(user).
FindUserByIdExec(p) ==
  /\ inv[p].pc = "findById"
  /\ \/ inv' = [inv EXCEPT ![p] = Done(p, "dropped", "store", NullUser, FALSE)]
     \/ inv' = [inv EXCEPT ![p] =
                  Done(p, "called", "null", FindById(users, inv[p].uid), FALSE)]
  /\ UNCHANGED <<users, cats, reviews, ncalls, seed, jobs, titles, failed, everOvl, ovl, nok, run>>

\* reviewObject.save's callback: an error is dropped, else callback(review).
ReviewSaved(p) ==
  /\ inv[p].pc = "saveReview"
  /\ \/ /\ reviews' = reviews + 1
        /\ inv' = [inv EXCEPT ![p] = Done(p, "called", "null", NullUser, FALSE)]
     \/ /\ inv' = [inv EXCEPT ![p] = Done(p, "dropped", "store", NullUser, FALSE)]
        /\ UNCHANGED reviews
  /\ UNCHANGED <<users, cats, ncalls, seed, jobs, titles, failed, everOvl, ovl, nok, run>>

\* ------------------------------------------------- toggleCategoryForUser

\* A plausible slip: category.save called next to user.save, not in its
\* callback.
IssuedByFindCategoryCallbackUnnested == <<Issue("saveUser"), Issue("saveCategory")>>

\* What findCategoryCallback issues when its in-memory part is done:
\* user.save; category.save is issued in user.save's callback.
IssuedByFindCategoryCallback == <<Issue("saveUser")>>

\* findUser fulfils with the user or null; the then-handler issues
\* Category.findById whatever it received.
ToggleCategoryThen(p) ==
  /\ inv[p].pc = "findUser"
  /\ inv[p].op = "toggleCategoryForUser"
  /\ inv' = [inv EXCEPT ![p].user = FindOne(users, inv[p].chatId),
                        ![p].pc = "findCategory",
                        ![p].log = @ \o <<Answer(p), Issue("findCategory")>>]
  /\ UNCHANGED <<users, cats, reviews, ncalls, seed, jobs, titles, failed, everOvl, ovl, nok, run>>

\* Category.findById's callback: an error and a missing category are both
\* dropped; with a category findCategoryCallback runs, which throws on a
\* null user (user.categories of null) and otherwise changes both documents
\* in memory and issues user.save.
FindCategoryExec(p) ==
  /\ inv[p].pc = "findCategory"
  /\ \/ /\ inv' = [inv EXCEPT ![p] = Done(p, "dropped", "store", NullUser, FALSE)]
        /\ run' = NoRun
     \/ LET category == FindCategoryById(cats, inv[p].categoryId)
            user == inv[p].user
        IN  IF category._id = "null"
            THEN /\ inv' = [inv EXCEPT ![p] = Done(p, "dropped", "null", NullUser, FALSE)]
                 /\ run' = NoRun
            ELSE IF user._id = 0
            THEN /\ inv' = [inv EXCEPT ![p] = Done(p, "thrown", "TypeError", NullUser, FALSE)]
                 /\ run' = NoRun
            ELSE LET r == findCategoryCallback(category, user)
                 IN  /\ inv' = [inv EXCEPT ![p].user = r.user,
                                           ![p].category = r.category,
                                           ![p].index = r.index,
                                           ![p].pc = "saveUser",
                                           ![p].log = Append(@, Answer(p))
                                                        \o IssuedByFindCategoryCallback]
                     /\ UNCHANGED run
  /\ UNCHANGED <<users, cats, reviews, ncalls, seed, jobs, titles, failed, everOvl, ovl, nok>>

\* user.save's callback in findCategoryCallback: its err is not looked at,
\* category.save is issued.
ToggleUserSaved(p) ==
  /\ inv[p].pc = "saveUser"
  /\ inv[p].op = "toggleCategoryForUser"
  /\ \/ /\ users' = SaveUser(users, inv[p].user)
        /\ inv' = [inv EXCEPT ![p].uw = "ok", ![p].pc = "saveCategory",
                              ![p].log = @ \o <<Answer(p), Issue("saveCategory")>>]
        /\ UNCHANGED failed
     \/ /\ inv' = [inv EXCEPT ![p].uw = "err", ![p].pc = "saveCategory",
                              ![p].log = @ \o <<Answer(p), Issue("saveCategory")>>]
        /\ failed' = TRUE
        /\ UNCHANGED users
  /\ UNCHANGED <<cats, reviews, ncalls, seed, jobs, titles, everOvl, ovl, nok, run>>

\* The third argument of the callback: whether the category was added.
AddedInverted(index) == index >= 0

Added(index) == index < 0

\* category.save's callback: callback(err, user, index < 0) unless err.
\* user is what user.save handed over: the saved document, or nothing.
CategorySaved(p) ==
  /\ inv[p].pc = "saveCategory"
  /\ \/ /\ cats' = SaveCategory(cats, inv[p].category)
        /\ inv' = [inv EXCEPT ![p] =
                     [Done(p, "called", "null",
                           IF inv[p].uw = "ok" THEN inv[p].user ELSE NullUser,
                           Added(inv[p].index))
                        EXCEPT !.cw = "ok"]]
        /\ run' = IF inv[p].uw = "ok" THEN RunOnSuccess(Added(inv[p].index)) ELSE NoRun
        /\ nok' = IF inv[p].uw = "ok" THEN nok + 1 ELSE nok
        /\ UNCHANGED failed
     \/ /\ inv' = [inv EXCEPT ![p] =
                     [Done(p, "dropped", "store", NullUser, FALSE) EXCEPT !.cw = "err"]]
        /\ failed' = TRUE
        /\ run' = NoRun
        /\ UNCHANGED <<cats, nok>>
  /\ UNCHANGED <<users, reviews, ncalls, seed, jobs, titles, everOvl, ovl>>

\* ------------------------------------------------ getCategory, getCategories

Rank(x) == CHOOSE i \in 1..Len(Collation) : Collation[i] = x

\* The orders a finite set can be listed in.
Perms(S) ==
  {s \in [1..Cardinality(S) -> S] : \A i, j \in 1..Cardinality(S) : s[i] = s[j] => i = j}

\* A plausible slip: the match without its hourly_rate condition.
CategoryMatchNoRate(u) == u.busy = FALSE /\ u.bio

\* populate's match: busy is false, bio exists, hourly_rate exists.
CategoryMatch(u) == u.busy = FALSE /\ u.bio /\ u.hourly_rate

\* populate('freelancers') with that match and sort {name: -1}: the stored
\* users the list refers to that match, each once, by name descending; the
\* store decides the order of equal names.
Populate(us, freelancers) ==
  LET hits == {i \in 1..Len(us) : InSeq(i, freelancers) /\ CategoryMatch(us[i])}
  IN  {s \in Perms(hits) :
         \A k \in 1..(Len(s) - 1) : Rank(us[s[k]].name) >= Rank(us[s[k + 1]].name)}

\* Category.find({}).sort('title'): every category, by title ascending.
SortedByTitle(ts) ==
  {s \in Perms(Cats) : \A k \in 1..(Len(s) - 1) : Rank(ts[s[k]]) <= Rank(ts[s[k + 1]])}

\* A category document with its freelancers populated.
Populated(c, fl) == [_id |-> c, title |-> titles[c], freelancers |-> fl]

\* getCategory(categoryTitle, callback): Category.findOne({title}) is issued.
GetCategory(p, limit, title) ==
  /\ Begin(p, limit, "getCategory", 0, "none")
  /\ inv' = [inv EXCEPT ![p] = [Fresh EXCEPT !.op = "getCategory",
                                            !.pc = "findCategoryByTitle",
                                            !.log = <<Issue("findCategoryByTitle")>>,
                                            !.title = title]]
  /\ UNCHANGED <<users, cats, reviews, seed, jobs, titles, failed>>

\* exec(callback) of getCategory: callback(err), or callback(null, category)
\* with the category of that title populated, or with null.
GetCategoryExec(p) ==
  /\ inv[p].pc = "findCategoryByTitle"
  /\ \/ inv' = [inv EXCEPT ![p] = Done(p, "called", "store", NullUser, FALSE)]
     \/ LET hits == {c \in Cats : titles[c] = inv[p].title}
        IN  IF hits = {}
            THEN inv' = [inv EXCEPT ![p] = Done(p, "called", "null", NullUser, FALSE)]
            ELSE \E c \in hits :
                   \E fl \in Populate(users, cats[c]) :
                     inv' = [inv EXCEPT ![p] =
                               [Done(p, "called", "null", NullUser, FALSE)
                                  EXCEPT !.res = [absent |-> FALSE,
                                                  list |-> <<Populated(c, fl)>>]]]
  /\ UNCHANGED <<users, cats, reviews, ncalls, seed, jobs, titles, failed, everOvl, ovl, nok, run>>

\* getCategories(callback): Category.find({}) is issued.
GetCategories(p, limit) ==
  /\ Begin(p, limit, "getCategories", 0, "none")
  /\ inv' = [inv EXCEPT ![p] = [Fresh EXCEPT !.op = "getCategories",
                                            !.pc = "findCategories",
                                            !.log = <<Issue("findCategories")>>]]
  /\ UNCHANGED <<users, cats, reviews, seed, jobs, titles, failed>>

\* exec(callback) of getCategories: callback(err), or callback(null,
\* categories), sorted by title and each populated.
GetCategoriesExec(p) ==
  /\ inv[p].pc = "findCategories"
  /\ \/ inv' = [inv EXCEPT ![p] = Done(p, "called", "store", NullUser, FALSE)]
     \/ \E order \in SortedByTitle(titles) :
          \E fl \in {g \in [Cats -> UNION {Populate(users, cats[c]) : c \in Cats}] :
                       \A c \in Cats : g[c] \in Populate(users, cats[c])} :
            inv' = [inv EXCEPT ![p] =
                      [Done(p, "called", "null", NullUser, FALSE)
                         EXCEPT !.res = [absent |-> FALSE,
                                         list |-> [k \in 1..Len(order) |->
                                                     Populated(order[k], fl[order[k]])]]]]
  /\ UNCHANGED <<users, cats, reviews, ncalls, seed, jobs, titles, failed, everOvl, ovl, nok, run>>

\* ------------------------------------- freelancersForJob, freelancersForJobId

\* Job.findById(id)
FindJobById(js, j) ==
  IF j \in 1..Len(js)
  THEN [_id |-> j, category |-> js[j].category,
        notInterestedCandidates |-> js[j].notInterestedCandidates]
  ELSE NullJob

\* A plausible slip: the query without its $nin condition.
JobMatchIgnoringNotInterested(us, i, job) ==
  /\ InSeq(job.category, us[i].categories)
  /\ us[i].busy = FALSE
  /\ us[i].bio
  /\ us[i].hourly_rate

\* The query of freelancersForJob: categories holds job.category, busy is
\* false, bio exists, hourly_rate exists, _id not in notInterestedCandidates.
JobMatch(us, i, job) ==
  /\ InSeq(job.category, us[i].categories)
  /\ us[i].busy = FALSE
  /\ us[i].bio
  /\ us[i].hourly_rate
  /\ i \notin job.notInterestedCandidates

\* User.find(query): the matching documents, in the order the store gives.
FindUsers(us, job) == Perms({i \in 1..Len(us) : JobMatch(us, i, job)})

\* freelancersForJob(job, callback), job a stored Job: User.find is issued.
FreelancersForJob(p, limit, j) ==
  /\ Begin(p, limit, "freelancersForJob", 0, "none")
  /\ j \in 1..Len(jobs)
  /\ inv' = [inv EXCEPT ![p] = [Fresh EXCEPT !.op = "freelancersForJob",
                                            !.pc = "findUsers",
                                            !.log = <<Issue("findUsers")>>,
                                            !.job = FindJobById(jobs, j)]]
  /\ UNCHANGED <<users, cats, reviews, seed, jobs, titles, failed>>

\* User.find's exec callback: an error is logged and dropped, else
\* callback(users).
FindUsersExec(p) ==
  /\ inv[p].pc = "findUsers"
  /\ \/ inv' = [inv EXCEPT ![p] = Done(p, "dropped", "store", NullUser, FALSE)]
     \/ \E found \in FindUsers(users, inv[p].job) :
          inv' = [inv EXCEPT ![p] =
                    [Done(p, "called", "null", NullUser, FALSE)
                       EXCEPT !.res = [absent |-> FALSE, list |-> found]]]
  /\ UNCHANGED <<users, cats, reviews, ncalls, seed, jobs, titles, failed, everOvl, ovl, nok, run>>

\* freelancersForJobId(jobId, callback): findJobById issues Job.findById.
FreelancersForJobId(p, limit, jobId) ==
  /\ Begin(p, limit, "freelancersForJobId", 0, "none")
  /\ inv' = [inv EXCEPT ![p] = [Fresh EXCEPT !.op = "freelancersForJobId",
                                            !.pc = "findJob",
                                            !.log = <<Issue("findJob")>>,
                                            !.jobId = jobId]]
  /\ UNCHANGED <<users, cats, reviews, seed, jobs, titles, failed>>

\* A plausible slip: freelancersForJob called without looking at job.
FindJobExecUnchecked(p) ==
  /\ inv[p].pc = "findJob"
  /\ \/ inv' = [inv EXCEPT ![p] = Done(p, "dropped", "store", NullUser, FALSE)]
     \/ inv' = [inv EXCEPT ![p].job = FindJobById(jobs, inv[p].jobId),
                           ![p].pc = "findUsers",
                           ![p].log = @ \o <<Answer(p), Issue("findUsers")>>]
  /\ UNCHANGED <<users, cats, reviews, ncalls, seed, jobs, titles, failed, everOvl, ovl, nok, run>>

\* findJobById's exec callback: an error is dropped; else the job goes to
\* freelancersForJobId's handler, which calls freelancersForJob with a job
\* and callback(null) without one.
FindJobExec(p) ==
  /\ inv[p].pc = "findJob"
  /\ \/ inv' = [inv EXCEPT ![p] = Done(p, "dropped", "store", NullUser, FALSE)]
     \/ LET job == FindJobById(jobs, inv[p].jobId)
        IN  IF job._id # 0
            THEN inv' = [inv EXCEPT ![p].job = job,
                                    ![p].pc = "findUsers",
                                    ![p].log = @ \o <<Answer(p), Issue("findUsers")>>]
            ELSE inv' = [inv EXCEPT ![p] = Done(p, "called", "null", NullUser, FALSE)]
  /\ UNCHANGED <<users, cats, reviews, ncalls, seed, jobs, titles, failed, everOvl, ovl, nok, run>>

\* ---------------------------------------------------------- specification

Step(p, limit) ==
  \/ \E chatId \in ChatIds, categoryId \in CategoryIds :
       ToggleCategoryForUser(p, limit, chatId, categoryId)
  \/ \E cand \in Candidates : AddUser(p, limit, cand)
  \/ \E chatId \in ChatIds : ToggleUserAvailability(p, limit, chatId)
  \/ \E id \in UserIds : FindUserById(p, limit, id)
  \/ AddReview(p, limit)
  \/ FindUserError(p)
  \/ AddUserThen(p)
  \/ NewUserSaved(p)
  \/ ToggleAvailabilityThen(p)
  \/ AvailabilitySaved(p)
  \/ FindUserByIdExec(p)
  \/ ReviewSaved(p)
  \/ ToggleCategoryThen(p)
  \/ FindCategoryExec(p)
  \/ ToggleUserSaved(p)
  \/ CategorySaved(p)

\* Invocations may overlap: two slots.
Next == \E p \in Procs : Step(p, MaxCalls)

Spec == Init /\ [][Next]_vars

\* One invocation at a time: a single slot.
SeqNext == \E p \in SeqProcs : Step(p, MaxSeqCalls)

SeqSpec == Init /\ [][SeqNext]_vars

\* A store with longer lists and a second user, for what one call does to
\* lists with repeated entries: the seeded user alone or with a second user
\* (chat id 2), the freelancers lists in any content over the stored users.
DupSeedUsers ==
  {<<[id |-> 1, name |-> "a", busy |-> FALSE, bio |-> TRUE, hourly_rate |-> TRUE,
      categories |-> cl]>> \o others :
     cl \in SeqsUpTo(Cats, MaxDupSeedLen),
     others \in {<<>>, <<[id |-> 2, name |-> "b", busy |-> FALSE, bio |-> TRUE,
                           hourly_rate |-> TRUE, categories |-> <<>>]>>}}

DupSeedCats(us) == [Cats -> SeqsUpTo(1..Len(us), MaxDupSeedLen)]

DupInit ==
  /\ users \in DupSeedUsers
  /\ cats \in DupSeedCats(users)
  /\ reviews = 0
  /\ jobs = <<>>
  /\ titles = SeedTitles
  /\ inv = [p \in Procs |-> Idle]
  /\ ncalls = 0
  /\ seed = [sym |-> Symmetric(users, cats), norep |-> NoRepeats(users, cats)]
  /\ failed = FALSE
  /\ everOvl = FALSE
  /\ ovl = [p \in Procs |-> FALSE]
  /\ nok = 0
  /\ run = NoRun

DupNext == \E p \in SeqProcs : Step(p, MaxDupCalls)

DupSpec == DupInit /\ [][DupNext]_vars

\* The queries read and never write: they are checked one call at a time
\* from every store content within the bounds.  For the category queries:
\* two users of any name, busy, bio and hourly_rate, the freelancers lists in
\* any content over them, the two titles either way round.
QuerySeedUsers ==
  {s \in [QueryUsers -> [id : ChatIds, name : {"a", "b"}, busy : BOOLEAN,
                          bio : BOOLEAN, hourly_rate : BOOLEAN,
                          categories : {<<>>}]] :
     \A i \in QueryUsers : s[i].id = i}

QuerySeedTitles == {SeedTitles, [c \in Cats |-> IF c = "c1" THEN "a" ELSE "b"]}

CategoryQueryInit ==
  /\ users \in QuerySeedUsers
  /\ cats \in [Cats -> SeqsUpTo(QueryUsers, MaxQueryLen)]
  /\ reviews = 0
  /\ jobs = <<>>
  /\ titles \in QuerySeedTitles
  /\ inv = [p \in Procs |-> Idle]
  /\ ncalls = 0
  /\ seed = [sym |-> Symmetric(users, cats), norep |-> NoRepeats(users, cats)]
  /\ failed = FALSE
  /\ everOvl = FALSE
  /\ ovl = [p \in Procs |-> FALSE]
  /\ nok = 0
  /\ run = NoRun

CategoryQueryNext ==
  \E p \in SeqProcs :
    \/ \E title \in Titles : GetCategory(p, MaxQueryCalls, title)
    \/ GetCategoryExec(p)
    \/ GetCategories(p, MaxQueryCalls)
    \/ GetCategoriesExec(p)

CategoryQuerySpec == CategoryQueryInit /\ [][CategoryQueryNext]_vars

\* For the job queries: two users of any busy, bio, hourly_rate and one of
\* three categories lists, and no job or one job of either category with
\* any set of not interested candidates.
JobSeedUsers ==
  {s \in [QueryUsers -> [id : ChatIds, name : {"a"}, busy : BOOLEAN,
                          bio : BOOLEAN, hourly_rate : BOOLEAN,
                          categories : {<<>>, <<"c1">>, <<"c2", "c1">>}]] :
     \A i \in QueryUsers : s[i].id = i}

SeedJobs ==
  {<<>>} \cup {<<[category |-> c, notInterestedCandidates |-> nic]>> :
                 c \in Cats, nic \in SUBSET QueryUsers}

JobQueryInit ==
  /\ users \in JobSeedUsers
  /\ cats = [c \in Cats |-> <<>>]
  /\ reviews = 0
  /\ jobs \in SeedJobs
  /\ titles = SeedTitles
  /\ inv = [p \in Procs |-> Idle]
  /\ ncalls = 0
  /\ seed = [sym |-> Symmetric(users, cats), norep |-> NoRepeats(users, cats)]
  /\ failed = FALSE
  /\ everOvl = FALSE
  /\ ovl = [p \in Procs |-> FALSE]
  /\ nok = 0
  /\ run = NoRun

JobQueryNext ==
  \E p \in SeqProcs :
    \/ \E j \in JobIds : FreelancersForJob(p, MaxQueryCalls, j)
    \/ \E jobId \in JobIds : FreelancersForJobId(p, MaxQueryCalls, jobId)
    \/ FindJobExec(p)
    \/ FindUsersExec(p)

JobQuerySpec == JobQueryInit /\ [][JobQueryNext]_vars

\* ------------------------------------------------------ symmetric membership

\* Every invocation so far was a toggleCategoryForUser that ended with both
\* of its writes done, and none is in flight.
OnlyToggledOk == Quiescent /\ nok = ncalls

\* C1 as stated: from a seeded store with symmetric membership, any sequence
\* of non-overlapping toggleCategoryForUser calls whose two writes succeed
\* ends in a store with symmetric membership.  (Fails from a store that is
\* symmetric but holds an entry twice.)
C1_SymmetricAfterToggles ==
  (seed.sym /\ OnlyToggledOk) => Symmetric(users, cats)

\* C1, amended: the same, from a seeded store with symmetric membership in
\* which no categories or freelancers list holds an entry twice.
C1_SymmetricAfterTogglesNoRepeats ==
  (/\ seed.sym
   /\ seed.norep
   /\ OnlyToggledOk) => Symmetric(users, cats)

\* Two or more successful toggles from such a store; the user is in every
\* category.
C1_Witness ==
  /\ seed.sym
  /\ seed.norep
  /\ OnlyToggledOk
  /\ ncalls >= 2
  /\ \A c \in Cats : InSeq(c, users[1].categories)

\* ------------------------------------------------------------ toggling thrice

Odd(k) == k % 2 = 1

\* The user a chat id resolves to in store st holds category c / is held by it.
UserLink(st, chatId, c) == InSeq(c, FindOne(st.users, chatId).categories)
CategoryLink(st, chatId, c) == InSeq(FindOne(st.users, chatId)._id, st.cats[c])

\* A run of toggleCategoryForUser(U, C) calls that began with both links absent.
ToggleRunFromAbsent ==
  /\ run.on
  /\ run.op = "toggleCategoryForUser"
  /\ Quiescent
  /\ run.categoryId \in Cats
  /\ FindOne(run.base.users, run.chatId)._id # 0
  /\ ~UserLink(run.base, run.chatId, run.categoryId)
  /\ ~CategoryLink(run.base, run.chatId, run.categoryId)

\* C2: from a store with neither link, successive non-overlapping successful
\* toggleCategoryForUser(U, C) calls report added = true, false, true, ...;
\* after the first and the third both links are present, after the second
\* both are absent.
C2_ToggleAlternates ==
  ToggleRunFromAbsent =>
    LET now == [users |-> users, cats |-> cats]
        n == Len(run.flags)
    IN  /\ \A k \in 1..n : run.flags[k] = Odd(k)
        /\ UserLink(now, run.chatId, run.categoryId) = Odd(n)
        /\ CategoryLink(now, run.chatId, run.categoryId) = Odd(n)

\* Three such calls are done.
C2_Witness == ToggleRunFromAbsent /\ Len(run.flags) = 3

\* ------------------------------------------------------- overlapping toggles

\* Slot p holds a finished toggleCategoryForUser whose two writes were done.
ToggledOk(p) ==
  /\ inv[p].op = "toggleCategoryForUser"
  /\ ~InFlight(p)
  /\ inv[p].uw = "ok"
  /\ inv[p].cw = "ok"
  /\ inv[p].cb.kind = "called"

\* C3: symmetric membership is lost without any failed write only when
\* invocations overlapped: from a seeded store with symmetric membership
\* and no repeated entry, a quiescent store that violates it, with no toggle
\* write failed, has seen an invocation start while another was in flight.
C3_LostOnlyByOverlap ==
  (/\ seed.sym
   /\ seed.norep
   /\ Quiescent
   /\ ~failed
   /\ ~Symmetric(users, cats)) => everOvl

\* C3's case: exactly two invocations, both toggleCategoryForUser of the same
\* (chat id, category), overlapping, both finished with their writes done,
\* from a symmetric seeded store; the pair's membership is now one-sided.
C3_Witness ==
  /\ seed.sym
  /\ seed.norep
  /\ ncalls = 2
  /\ ToggledOk("p1")
  /\ ToggledOk("p2")
  /\ inv["p1"].chatId = inv["p2"].chatId
  /\ inv["p1"].categoryId = inv["p2"].categoryId
  /\ everOvl
  /\ LET now == [users |-> users, cats |-> cats]
     IN  UserLink(now, inv["p1"].chatId, inv["p1"].categoryId)
           # CategoryLink(now, inv["p1"].chatId, inv["p1"].categoryId)

\* ------------------------------------------------------------------ addUser

\* At most one user document per chat id.
UniqueIds(us) == \A i, j \in 1..Len(us) : us[i].id = us[j].id => i = j

\* Slot p's findUser is answered (without error) in this step, for an addUser
\* whose candidate.id belongs to a stored user.
AddUserFindsExisting(p) ==
  /\ inv[p].op = "addUser"
  /\ inv[p].pc = "findUser"
  /\ inv'[p].pc # "findUser"
  /\ inv'[p].cb.kind # "thrown"
  /\ FindOne(users, inv[p].cand.id)._id # 0

\* C4: with addUser calls that do not overlap, the store never holds two
\* user documents of one id; an addUser whose candidate.id belongs to a stored
\* user writes nothing and ends with callback(null, the stored document).
C4_AddUserIdempotent ==
  [][/\ UniqueIds(users')
     /\ \A p \in Procs :
          AddUserFindsExisting(p) =>
            /\ users' = users
            /\ inv'[p].pc = "idle"
            /\ inv'[p].uw = "none"
            /\ inv'[p].cb = [kind |-> "called", err |-> "null",
                             doc |-> FindOne(users, inv[p].cand.id),
                             added |-> FALSE]]_vars

\* A second addUser of an id that an earlier addUser created has ended: no
\* write was issued and the callback holds the stored document, which is not
\* the candidate (it carries a store id).
C4_Witness ==
  /\ ~everOvl
  /\ Len(users) = 2
  /\ inv["p1"].op = "addUser"
  /\ ~InFlight("p1")
  /\ inv["p1"].uw = "none"
  /\ inv["p1"].cb.kind = "called"
  /\ inv["p1"].cb.doc = Loaded(users, 2)
  /\ users[2].id = inv["p1"].cand.id

\* C5: two user documents with one id arise only when invocations overlap.
C5_DuplicateOnlyByOverlap == ~UniqueIds(users) => everOvl

\* C5's case: two addUser calls of the same id, and no others, both read "no
\* such user", both saved: two documents with that id.
C5_Witness ==
  /\ ncalls = 2
  /\ \A p \in Procs :
       /\ inv[p].op = "addUser"
       /\ ~InFlight(p)
       /\ inv[p].uw = "ok"
       /\ inv[p].cb.kind = "called"
       /\ inv[p].cb.err = "null"
  /\ inv["p1"].cand.id = inv["p2"].cand.id
  /\ Len(users) = 3
  /\ users[2].id = users[3].id

\* --------------------------------------------- outcomes of a toggle (C6, C7)

\* Slot p holds a finished toggleCategoryForUser.
ToggleEnded(p) == inv[p].op = "toggleCategoryForUser" /\ ~InFlight(p)

\* The callback of slot p was called and reports failure / success.
ReportsFailure(p) == inv[p].cb.kind = "called" /\ inv[p].cb.err # "null"
ReportsSuccess(p) == inv[p].cb.kind = "called" /\ inv[p].cb.err = "null"

\* C6: a toggleCategoryForUser that issued its writes reports success only
\* when both were done, and reports failure when either failed.
C6_BothWritesOrFailure ==
  \A p \in Procs :
    (ToggleEnded(p) /\ inv[p].uw # "none") =>
      /\ ReportsSuccess(p) => (inv[p].uw = "ok" /\ inv[p].cw = "ok")
      /\ (inv[p].uw = "err" \/ inv[p].cw = "err") => ReportsFailure(p)

\* The user / the category the call of slot p names was not in the store
\* when it was called.
UserMissing(p) == FindOne(inv[p].pre.users, inv[p].chatId)._id = 0
CategoryMissing(p) == inv[p].categoryId \notin Cats

\* C7: Category.findById is issued only after findUser returned a user, and
\* a toggleCategoryForUser naming a missing user or a missing category (the
\* store answering its reads without error) ends with a failure reported to
\* the callback.
C7_NotFoundReported ==
  \A p \in Procs :
    inv[p].op = "toggleCategoryForUser" =>
      /\ inv[p].pc = "findCategory" => inv[p].user._id # 0
      /\ (/\ ~InFlight(p)
          /\ ~everOvl
          /\ inv[p].cb.err # "store"
          /\ UserMissing(p) \/ CategoryMissing(p)) => ReportsFailure(p)

\* ------------------------------------------------- tolerated asymmetry (C8)

\* after is before with one occurrence of x taken out, the rest in order.
OneRemoved(before, after, x) ==
  \E k \in 1..Len(before) :
    /\ before[k] = x
    /\ after = [i \in 1..(Len(before) - 1) |->
                  IF i < k THEN before[i] ELSE before[i + 1]]

\* Slot p holds a finished toggleCategoryForUser(U, C), both writes done, not
\* overlapped, called on a store where U.categories held C and C.freelancers
\* did not hold U.
ToggledFromOneSided(p) ==
  /\ ToggledOk(p)
  /\ ~ovl[p]
  /\ UserLink(inv[p].pre, inv[p].chatId, inv[p].categoryId)
  /\ ~CategoryLink(inv[p].pre, inv[p].chatId, inv[p].categoryId)

OtherOperationStep(p) ==
  /\ inv'[p] # inv[p]
  /\ (IF InFlight(p) THEN inv[p].op ELSE inv'[p].op) # "toggleCategoryForUser"

\* The categories of the stored user with store id i change in this step.
CategoriesChange(i) == users'[i].categories # users[i].categories

\* C9 as stated: no step of addUser, toggleUserAvailability, addReview or a
\* lookup changes a stored user's categories or a category's freelancers,
\* overlapping a toggleCategoryForUser or not.
C9_OnlyToggleWritesLists ==
  [][\A p \in Procs :
       OtherOperationStep(p) =>
         /\ cats' = cats
         /\ \A i \in 1..Len(users) : ~CategoriesChange(i)]_vars

\* What holds instead: such a step never changes a category's freelancers,
\* and changes a stored user's categories only when it is the save of a
\* toggleUserAvailability that overlapped another invocation: the save puts
\* back the categories the document was read with.
OnlyToggleWritesListsUnlessStale ==
  [][\A p \in Procs :
       OtherOperationStep(p) =>
         /\ cats' = cats
         /\ \A i \in 1..Len(users) :
              CategoriesChange(i) =>
                /\ inv[p].op = "toggleUserAvailability"
                /\ inv[p].pc = "saveUser"
                /\ ovl[p]
                /\ inv[p].user._id = i
                /\ users'[i].categories = inv[p].user.categories]_vars

\* C9's case: of two invocations, a toggleCategoryForUser has
\* done both writes and a toggleUserAvailability of the same user has saved
\* after it; the user's stored categories are not those the toggle wrote.
C9_Witness ==
  \E p \in Procs, q \in Procs :
    /\ ncalls = 2
    /\ inv[p].op = "toggleUserAvailability"
    /\ ~InFlight(p)
    /\ inv[p].uw = "ok"
    /\ ovl[p]
    /\ ToggledOk(q)
    /\ inv[q].user._id = inv[p].user._id
    /\ users[inv[p].user._id].categories # inv[q].user.categories
    /\ users[inv[p].user._id].categories = inv[p].user.categories

\* ------------------------------------------------ toggleUserAvailability (C10)

\* After n successive successful non-overlapping toggleUserAvailability(id)
\* calls the stored busy flag is the original one negated n times, the rest
\* of the document as it was.
AvailabilityFlips ==
  (run.on /\ run.op = "toggleUserAvailability" /\ Quiescent) =>
    LET u == FindOne(run.base.users, run.chatId)
        n == Len(run.flags)
    IN  /\ u._id # 0
        /\ users[u._id].busy = (IF Odd(n) THEN ~u.busy ELSE u.busy)
        /\ users[u._id].categories = u.categories
        /\ Len(users) = Len(run.base.users)

\* A toggleUserAvailability(id) with no user of that id (findUser answering
\* without error) reports a failure to its callback and leaves the store.
AvailabilityOfMissingUserFails ==
  \A p \in Procs :
    (/\ inv[p].op = "toggleUserAvailability"
     /\ ~InFlight(p)
     /\ ~ovl[p]
     /\ inv[p].cb.err # "store"
     /\ UserMissing(p)) =>
      /\ ReportsFailure(p)
      /\ users = inv[p].pre.users
      /\ cats = inv[p].pre.cats

\* C10: toggleUserAvailability negates and persists busy, two successive calls
\* restoring it; with no such user it fails, reported to the caller, the
\* store unchanged.
C10_AvailabilityToggle == AvailabilityFlips /\ AvailabilityOfMissingUserFails

\* Two successive successful toggleUserAvailability calls are done.
AvailabilityToggledTwice ==
  run.on /\ run.op = "toggleUserAvailability" /\ Quiescent /\ Len(run.flags) = 2

\* ------------------------------------------------------ fatal failures (C14)

\* C14: whatever the store answers, no invocation ends with an exception that
\* leaves a store callback uncaught or with a rejection nothing handles.
C14_NoFatalFailure ==
  \A p \in Procs : inv[p].cb.kind \notin {"thrown", "rejected"}

\* ------------------------------------------------ order of the requests (C15)

\* The requests of a toggleCategoryForUser, each issued after the answer of
\* the one before.
ToggleOrder ==
  <<Issue("findUser"), <<"answer", Req("findUser")>>,
    Issue("findCategory"), <<"answer", Req("findCategory")>>,
    Issue("saveUser"), <<"answer", Req("saveUser")>>,
    Issue("saveCategory"), <<"answer", Req("saveCategory")>>>>

IsPrefix(s, t) == Len(s) <= Len(t) /\ \A k \in 1..Len(s) : s[k] = t[k]

\* C15: the log of a toggleCategoryForUser is at every moment a prefix of:
\* read User, read Category, write User, write Category, each request issued
\* only after the previous one was answered.
C15_RequestsInOrder ==
  \A p \in Procs :
    inv[p].op = "toggleCategoryForUser" => IsPrefix(inv[p].log, ToggleOrder)

\* A toggleCategoryForUser has gone through all four requests.
C15_Witness ==
  \E p \in Procs : inv[p].op = "toggleCategoryForUser" /\ inv[p].log = ToggleOrder

\* ------------------------------------------- failed Category write (C16)

\* Slot p holds a finished toggleCategoryForUser, not overlapped, whose User
\* write was done and whose Category write failed, called on a store with
\* symmetric membership.
CategoryWriteFailed(p) ==
  /\ ToggleEnded(p)
  /\ ~ovl[p]
  /\ inv[p].uw = "ok"
  /\ inv[p].cw = "err"
  /\ Symmetric(inv[p].pre.users, inv[p].pre.cats)

\* The store after it: U's membership of C flipped in the User document, the
\* categories as they were, the pair one-sided, and the failed category.save
\* the last request of the invocation.
LeftOneSided(p) ==
  LET now == [users |-> users, cats |-> cats]
      c == inv[p].categoryId
  IN  /\ UserLink(now, inv[p].chatId, c) # UserLink(inv[p].pre, inv[p].chatId, c)
      /\ cats = inv[p].pre.cats
      /\ UserLink(now, inv[p].chatId, c) # CategoryLink(now, inv[p].chatId, c)
      /\ inv[p].log = ToggleOrder
      /\ inv[p].ncb = 0

\* C16 as stated: from a store with symmetric membership.  (Fails when
\* U.categories holds C twice: one C is left after the removal.)
C16_CategoryWriteFailureLeavesOneSided ==
  \A p \in Procs : CategoryWriteFailed(p) => LeftOneSided(p)

\* C16, amended: from a store with symmetric membership and no repeated entry
\* in any categories or freelancers list.
C16_CategoryWriteFailureNoRepeats ==
  \A p \in Procs :
    (CategoryWriteFailed(p) /\ NoRepeats(inv[p].pre.users, inv[p].pre.cats))
      => LeftOneSided(p)

\* The case has happened, for a removal.
C16_Witness ==
  \E p \in Procs :
    /\ CategoryWriteFailed(p)
    /\ NoRepeats(inv[p].pre.users, inv[p].pre.cats)
    /\ UserLink(inv[p].pre, inv[p].chatId, inv[p].categoryId)

\* ------------------------------------------------- repeated entries (C17)

\* s without its first entry equal to x (s itself when it has none).
RemoveFirst(s, x) ==
  IF ~InSeq(x, s) THEN s
  ELSE LET k == CHOOSE i \in 1..Len(s) :
                  s[i] = x /\ \A j \in 1..(i - 1) : s[j] # x
       IN  SubSeq(s, 1, k - 1) \o SubSeq(s, k + 1, Len(s))

\* Slot p holds a finished toggleCategoryForUser(U, C), both writes done, not
\* overlapped, called when U.categories held C more than once or
\* C.freelancers held U more than once.
ToggledWithRepeats(p) ==
  /\ ToggledOk(p)
  /\ ~ovl[p]
  /\ LET u == FindOne(inv[p].pre.users, inv[p].chatId)
     IN  \/ Count(inv[p].categoryId, u.categories) > 1
         \/ Count(u._id, inv[p].pre.cats[inv[p].categoryId]) > 1

\* The first C is gone from U.categories and the first U from C.freelancers,
\* every other entry in place; added = false.
FirstOccurrencesRemoved(p) ==
  LET u == FindOne(inv[p].pre.users, inv[p].chatId)
      c == inv[p].categoryId
  IN  /\ users[u._id].categories = RemoveFirst(u.categories, c)
      /\ cats[c] = RemoveFirst(inv[p].pre.cats[c], u._id)
      /\ ReportsSuccess(p)
      /\ inv[p].cb.added = FALSE

\* C17 as stated: whenever either list holds its entry more than once.
\* (Fails when C.freelancers holds U twice and U.categories holds no C: the
\* call adds.)
C17_FirstOccurrenceOnly ==
  \A p \in Procs : ToggledWithRepeats(p) => FirstOccurrencesRemoved(p)

\* C17, amended: whenever U.categories holds C, and either list holds its
\* entry more than once.
C17_FirstOccurrenceOnlyWhenPresent ==
  \A p \in Procs :
    (ToggledWithRepeats(p) /\ UserLink(inv[p].pre, inv[p].chatId, inv[p].categoryId))
      => FirstOccurrencesRemoved(p)

\* The case has happened with both lists holding the entry twice, another
\* entry between the two.
C17_Witness ==
  \E p \in Procs :
    /\ ToggledWithRepeats(p)
    /\ LET u == FindOne(inv[p].pre.users, inv[p].chatId)
           c == inv[p].categoryId
       IN  /\ Len(u.categories) = 3
           /\ u.categories[1] = c /\ u.categories[2] # c /\ u.categories[3] = c
           /\ Len(inv[p].pre.cats[c]) = 3
           /\ inv[p].pre.cats[c][1] = u._id
           /\ inv[p].pre.cats[c][2] # u._id
           /\ inv[p].pre.cats[c][3] = u._id

\* --------------------------------------------- every toggle resolves (C18)

\* C18: a toggleCategoryForUser that has ended (no request of it is pending)
\* has called its callback.
C18_EveryToggleResolves ==
  \A p \in Procs : ToggleEnded(p) => inv[p].ncb = 1

\* ---------------------------------------------------- no new repeats (C19)

\* C19: from a seeded store with symmetric membership and no repeated entry,
\* non-overlapping successful toggleCategoryForUser calls leave no repeated
\* entry in any list.
C19_NoRepeatsPreserved ==
  (seed.sym /\ seed.norep /\ OnlyToggledOk) => NoRepeats(users, cats)

\* Three such calls are done, the user is in exactly one category.
C19_Witness ==
  /\ seed.sym
  /\ seed.norep
  /\ OnlyToggledOk
  /\ ncalls >= 3
  /\ Len(users[1].categories) = 1

\* -------------------------------------------------- frame of a toggle (C20)

\* s without its entries equal to x, the rest in order.
RECURSIVE Without(_, _)
Without(s, x) ==
  IF s = <<>> THEN <<>>
  ELSE IF s[1] = x THEN Without(Tail(s), x)
  ELSE <<s[1]>> \o Without(Tail(s), x)

\* C20: a successful toggleCategoryForUser(U, C) that overlapped nothing
\* leaves every other user document, every other category's freelancers, U's
\* other fields, and the entries other than C of U.categories and other than
\* U of C.freelancers as they were when it was called.
C20_ToggleFrame ==
  \A p \in Procs :
    (ToggledOk(p) /\ ~ovl[p]) =>
      LET before == inv[p].pre
          u == FindOne(before.users, inv[p].chatId)._id
          c == inv[p].categoryId
      IN  /\ Len(users) = Len(before.users)
          /\ \A i \in 1..Len(users) : i # u => users[i] = before.users[i]
          /\ [users[u] EXCEPT !.categories = <<>>]
               = [before.users[u] EXCEPT !.categories = <<>>]
          /\ Without(users[u].categories, c) = Without(before.users[u].categories, c)
          /\ \A d \in Cats : d # c => cats[d] = before.cats[d]
          /\ Without(cats[c], u) = Without(before.cats[c], u)

\* The case has happened with another user in the store who is in a category,
\* and with other entries in both of the lists the call changed.
C20_Witness ==
  \E p \in Procs :
    /\ ToggledOk(p)
    /\ ~ovl[p]
    /\ Len(users) = 2
    /\ \E i \in 1..Len(users) : i # inv[p].user._id /\ users[i].categories # <<>>
    /\ Without(cats[inv[p].categoryId], inv[p].user._id) # <<>>

\* ------------------------------------------------- category queries (C11)

\* Slot p holds a finished call of operation o whose callback got no error.
Delivered(p, o) == inv[p].op = o /\ ~InFlight(p) /\ ReportsSuccess(p)

\* The freelancers of a delivered category are exactly the stored users its
\* freelancers list refers to with busy = false, a bio and an hourly_rate,
\* and their names do not ascend.
FreelancersRight(category) ==
  LET fl == category.freelancers
  IN  /\ {fl[k] : k \in 1..Len(fl)} =
           {i \in 1..Len(users) :
              /\ InSeq(i, cats[category._id])
              /\ users[i].busy = FALSE /\ users[i].bio /\ users[i].hourly_rate}
      /\ \A k, l \in 1..Len(fl) :
           k < l => Rank(users[fl[k]].name) >= Rank(users[fl[l]].name)

\* C11: the category getCategory(title) delivers has that title and the
\* right freelancers; getCategories delivers every category once, the titles
\* ascending, each with the right freelancers.
C11_FreelancerLists ==
  \A p \in Procs :
    LET list == inv[p].res.list
    IN  /\ (Delivered(p, "getCategory") /\ ~inv[p].res.absent) =>
             /\ Len(list) = 1
             /\ list[1].title = inv[p].title
             /\ FreelancersRight(list[1])
        /\ Delivered(p, "getCategories") =>
             /\ Len(list) = Cardinality(Cats)
             /\ {list[k]._id : k \in 1..Len(list)} = Cats
             /\ \A k, l \in 1..Len(list) :
                  k < l => Rank(list[k].title) <= Rank(list[l].title)
             /\ \A k \in 1..Len(list) : FreelancersRight(list[k])

\* getCategories has delivered, from a store where the first category's list
\* names both users, the lower name first, one user twice, and where the
\* second category's title comes first; both users are in the delivered list,
\* the higher name first.
C11_Witness ==
  \E p \in Procs :
    /\ Delivered(p, "getCategories")
    /\ Len(cats["c1"]) = 2
    /\ Rank(users[cats["c1"][1]].name) < Rank(users[cats["c1"][2]].name)
    /\ ~NoRepeat(cats["c2"])
    /\ Rank(titles["c2"]) < Rank(titles["c1"])
    /\ inv[p].res.list[1]._id = "c2"
    /\ Len(inv[p].res.list[2].freelancers) = 2
    /\ inv[p].res.list[2].freelancers[1] = cats["c1"][2]

\* ------------------------------------------------ job queries (C12, C13)

\* The stored users a job is for: in its category, busy = false, with a bio
\* and an hourly_rate, not among its not interested candidates.
ForJob(job) ==
  {i \in 1..Len(users) :
     /\ InSeq(job.category, users[i].categories)
     /\ users[i].busy = FALSE /\ users[i].bio /\ users[i].hourly_rate
     /\ i \notin job.notInterestedCandidates}

\* The callback of slot p got a list that holds exactly those users, each once.
DeliveredForJob(p, job) ==
  LET list == inv[p].res.list
  IN  /\ inv[p].ncb = 1
      /\ ~inv[p].res.absent
      /\ NoRepeat(list)
      /\ {list[k] : k \in 1..Len(list)} = ForJob(job)

\* C12: what freelancersForJob(job) hands to its callback is exactly the set
\* of users the job is for.
C12_FreelancersForJob ==
  \A p \in Procs : Delivered(p, "freelancersForJob") => DeliveredForJob(p, inv[p].job)

\* It has delivered one user of two in the job's category with full
\* profiles, the other being not interested.
C12_Witness ==
  \E p \in Procs :
    /\ Delivered(p, "freelancersForJob")
    /\ Len(inv[p].res.list) = 1
    /\ \E i \in inv[p].job.notInterestedCandidates :
         /\ InSeq(inv[p].job.category, users[i].categories)
         /\ CategoryMatch(users[i])

\* Slot p holds a finished freelancersForJobId whose requests the store
\* answered without error.
JobIdAnswered(p) ==
  inv[p].op = "freelancersForJobId" /\ ~InFlight(p) /\ inv[p].cb.err # "store"

\* C13: freelancersForJobId with an id of no stored job calls its callback
\* once, with null and no error, Job.findById its only request; with the id
\* of a stored job it delivers the users that job is for.
C13_FreelancersForJobId ==
  \A p \in Procs :
    JobIdAnswered(p) =>
      IF inv[p].jobId \in 1..Len(jobs)
      THEN DeliveredForJob(p, FindJobById(jobs, inv[p].jobId))
      ELSE /\ inv[p].ncb = 1
           /\ inv[p].cb.kind = "called"
           /\ inv[p].cb.err = "null"
           /\ inv[p].res.absent
           /\ inv[p].log = <<Issue("findJob"), <<"answer", Req("findJob")>>>>

\* The case of an id that matches none, in a store that holds a job and a
\* user that job is for.
C13_Witness ==
  \E p \in Procs :
    /\ JobIdAnswered(p)
    /\ inv[p].jobId \notin 1..Len(jobs)
    /\ jobs # <<>>
    /\ ForJob(FindJobById(jobs, 1)) # {}

====
